---- MODULE Spec2Model ----
(***************************************************************************)
(* goenv: typed access to environment variables and the tag-driven struct  *)
(* loader Load (src/goenv.go).                                             *)
(*                                                                         *)
(* Text is a sequence of one-character strings, so that the parsers the    *)
(* code calls (strconv.Atoi, strconv.ParseFloat, strconv.ParseBool,        *)
(* time.Parse(RFC3339), time.ParseDuration) are computed from the          *)
(* characters and not assumed.                                             *)
(***************************************************************************)
EXTENDS Integers, Sequences, FiniteSets, TLC

(***************************************************************************)
(* Bounds of the model.                                                    *)
(***************************************************************************)
\* Largest number of fields of a target struct.
MaxFields == 2

(***************************************************************************)
(* Text literals used as environment values and fallback tags.             *)
(***************************************************************************)
Empty == <<>>
TxtOne == <<"1">>
TxtZero == <<"0">>
TxtBig == <<"4", "0", "0", "0", "0">>
TxtFloat == <<"1", ".", "5">>
TxtTrue == <<"t", "r", "u", "e">>
TxtDur == <<"3", "0", "s">>
TxtTime == <<"2", "0", "2", "5", "-", "0", "1", "-", "0", "1", "T",
             "0", "0", ":", "0", "0", ":", "0", "0", "Z">>
TxtBad == <<"x">>

\* The only environment variable name the struct tags of the model refer to.
KeyK == <<"K">>
Keys == {KeyK}

\* A variable that is not in the environment at all.
Unset == <<"<unset>">>

EnvTexts == {Empty, TxtOne, TxtZero, TxtBig, TxtFloat, TxtDur, TxtTime, TxtBad}

(***************************************************************************)
(* Characters.                                                             *)
(***************************************************************************)
Digits == <<"0", "1", "2", "3", "4", "5", "6", "7", "8", "9">>

IsDigit(c) == \E i \in 1..10 : Digits[i] = c

DigitVal(c) == (CHOOSE i \in 1..10 : Digits[i] = c) - 1

AllDigits(s) == \A i \in 1..Len(s) : IsDigit(s[i])

RECURSIVE DecVal(_)
\* n = n*10 + int(ch) over the digits of s, left to right.
DecVal(s) ==
    IF s = <<>> THEN 0
    ELSE DecVal(SubSeq(s, 1, Len(s) - 1)) * 10 + DigitVal(s[Len(s)])

Drop(s, k) == SubSeq(s, k + 1, Len(s))

HasSign(s) == Len(s) > 0 /\ s[1] \in {"+", "-"}

Unsigned(s) == IF HasSign(s) THEN Drop(s, 1) ELSE s

(***************************************************************************)
(* Values of struct fields and of accessor results.  Every value is a      *)
(* record of the same shape: t is the representation, n the integer (or    *)
(* the decimal mantissa, or 0/1 for a bool), e the decimal exponent of a   *)
(* float, s the text of a string, tm the calendar fields of a time.Time.   *)
(***************************************************************************)
Val(t, n, e, s, tm) == [t |-> t, n |-> n, e |-> e, s |-> s, tm |-> tm]

StrVal(s) == Val("string", 0, 0, s, <<>>)

IntVal(n) == Val("int", n, 0, <<>>, <<>>)

FloatVal(m, e) == Val("float", m, e, <<>>, <<>>)

BoolVal(b) == Val("bool", IF b THEN 1 ELSE 0, 0, <<>>, <<>>)

TimeVal(tm) == Val("time", 0, 0, <<>>, tm)

\* A value of a type the loader has no parser for (uint, a nested struct).
OtherVal(n) == Val("other", n, 0, <<>>, <<>>)

\* time.Time{}: January 1, year 1, 00:00:00 UTC.
ZeroTime == <<1, 1, 1, 0, 0, 0, 0>>

\* Atoi losing the sign.
Atoi_IgnoresSign(s) ==
    LET u == Unsigned(s)
        good == Len(u) >= 1 /\ AllDigits(u)
    IN [ok |-> good, n |-> IF good THEN DecVal(u) ELSE 0]

(***************************************************************************)
(* strconv.Atoi: optional sign, then one or more decimal digits.  The      *)
(* range error of Atoi needs 19 digits and more; the texts of the model    *)
(* are shorter.                                                            *)
(***************************************************************************)
Atoi(s) ==
    LET u == Unsigned(s)
        good == Len(u) >= 1 /\ AllDigits(u)
        mag == IF good THEN DecVal(u) ELSE 0
    IN [ok |-> good,
        n |-> IF good /\ s[1] = "-" THEN 0 - mag ELSE mag]

(***************************************************************************)
(* strconv.ParseBool: exactly the twelve spellings of the switch.          *)
(***************************************************************************)
TrueTexts == {<<"1">>, <<"t">>, <<"T">>, <<"T", "R", "U", "E">>,
              <<"t", "r", "u", "e">>, <<"T", "r", "u", "e">>}

FalseTexts == {<<"0">>, <<"f">>, <<"F">>, <<"F", "A", "L", "S", "E">>,
               <<"f", "a", "l", "s", "e">>, <<"F", "a", "l", "s", "e">>}

ParseBool(s) == [ok |-> s \in TrueTexts \cup FalseTexts, b |-> s \in TrueTexts]

(***************************************************************************)
(* strconv.ParseFloat on decimal numerals: optional sign, digits with at   *)
(* most one point and at least one digit.  The value is kept exactly, as   *)
(* mantissa * 10^exponent in lowest terms.  (Exponents, hexadecimal        *)
(* numerals, inf and nan use letters the texts of the model do not         *)
(* contain; the numerals of the model are exact in 32 and in 64 bits, so   *)
(* rounding to bitSize changes nothing.)                                   *)
(***************************************************************************)
RECURSIVE Normal(_, _)
Normal(m, e) ==
    IF m = 0 THEN <<0, 0>>
    ELSE IF m % 10 = 0 THEN Normal(m \div 10, e + 1)
    ELSE <<m, e>>

Points(s) == {i \in 1..Len(s) : s[i] = "."}

\* The place of the point in u (past the end when there is none).
PointAt(u) == IF Points(u) = {} THEN Len(u) + 1 ELSE CHOOSE i \in Points(u) : TRUE

\* The numeral with digits ip before the point and fp after it.
Decimal(neg, onePoint, ip, fp) ==
    IF onePoint /\ Len(ip) + Len(fp) >= 1 /\ AllDigits(ip) /\ AllDigits(fp)
    THEN [ok |-> TRUE,
          m |-> Normal(IF neg THEN 0 - DecVal(ip \o fp) ELSE DecVal(ip \o fp),
                       0 - Len(fp))[1],
          e |-> Normal(DecVal(ip \o fp), 0 - Len(fp))[2]]
    ELSE [ok |-> FALSE, m |-> 0, e |-> 0]

ParseFloat(s, bitSize) ==
    Decimal(HasSign(s) /\ s[1] = "-",
            Cardinality(Points(Unsigned(s))) <= 1,
            SubSeq(Unsigned(s), 1, PointAt(Unsigned(s)) - 1),
            SubSeq(Unsigned(s), PointAt(Unsigned(s)) + 1, Len(Unsigned(s))))

(***************************************************************************)
(* time.ParseDuration: an optional sign, then one or more groups of a      *)
(* decimal number and a unit, and the special case "0".                    *)
(* Durations are counted in milliseconds and the unit table                *)
(* holds the units that are whole milliseconds; fractions are not          *)
(* modelled (a text with a point is a number followed by no unit).         *)
(***************************************************************************)
UnitMs(u) ==
    CASE u = <<"m", "s">> -> 1
      [] u = <<"s">> -> 1000
      [] u = <<"m">> -> 60000
      [] u = <<"h">> -> 3600000
      [] OTHER -> 0

\* leadingInt: how many leading characters of s are digits.
LeadingDigits(s) ==
    CHOOSE k \in 0..Len(s) :
        /\ \A i \in 1..k : IsDigit(s[i])
        /\ (k = Len(s) \/ ~IsDigit(s[k + 1]))

\* The unit: the leading characters of s up to a point or a digit.
UnitLen(s) ==
    CHOOSE k \in 0..Len(s) :
        /\ \A i \in 1..k : ~(s[i] = "." \/ IsDigit(s[i]))
        /\ (k = Len(s) \/ s[k + 1] = "." \/ IsDigit(s[k + 1]))

RECURSIVE DurGroups(_)
\* The loop `for s != ""`: one number and one unit per round.
DurGroups(s) ==
    IF s = <<>> THEN [ok |-> TRUE, n |-> 0]
    ELSE LET k == LeadingDigits(s)
             r == Drop(s, k)
             u == UnitLen(r)
             unit == UnitMs(SubSeq(r, 1, u))
         IN IF k = 0 \/ u = 0 \/ unit = 0 THEN [ok |-> FALSE, n |-> 0]
            ELSE LET rest == DurGroups(Drop(r, u))
                 IN [ok |-> rest.ok,
                     n |-> IF rest.ok THEN DecVal(SubSeq(s, 1, k)) * unit + rest.n
                           ELSE 0]

ParseDuration(s) ==
    LET u == Unsigned(s)
    IN IF u = <<"0">> THEN [ok |-> TRUE, n |-> 0]
       ELSE IF u = <<>> THEN [ok |-> FALSE, n |-> 0]
       ELSE LET g == DurGroups(u)
            IN [ok |-> g.ok,
                n |-> IF g.ok /\ s[1] = "-" THEN 0 - g.n ELSE g.n]

(***************************************************************************)
(* time.Parse(time.RFC3339, s): YYYY-MM-DDTHH:MM:SS followed by Z or by    *)
(* +hh:mm / -hh:mm, every number in its calendar range.  Fractional        *)
(* seconds are not modelled.  The value is the calendar fields and the     *)
(* zone offset in minutes.                                                 *)
(***************************************************************************)
IsLeap(y) == y % 4 = 0 /\ (y % 100 # 0 \/ y % 400 = 0)

DaysIn(mo, y) ==
    CASE mo = 2 -> IF IsLeap(y) THEN 29 ELSE 28
      [] mo \in {4, 6, 9, 11} -> 30
      [] OTHER -> 31

Num(s, i, j) == DecVal(SubSeq(s, i, j))

ParseRFC3339(s) ==
    LET shape == /\ Len(s) \in {20, 25}
                 /\ \A i \in {1, 2, 3, 4, 6, 7, 9, 10, 12, 13, 15, 16, 18, 19} :
                        IsDigit(s[i])
                 /\ s[5] = "-" /\ s[8] = "-" /\ s[11] = "T"
                 /\ s[14] = ":" /\ s[17] = ":"
                 /\ IF Len(s) = 20 THEN s[20] = "Z"
                    ELSE /\ s[20] \in {"+", "-"}
                         /\ \A i \in {21, 22, 24, 25} : IsDigit(s[i])
                         /\ s[23] = ":"
        y == Num(s, 1, 4)
        mo == Num(s, 6, 7)
        d == Num(s, 9, 10)
        h == Num(s, 12, 13)
        mi == Num(s, 15, 16)
        sec == Num(s, 18, 19)
        oh == IF Len(s) = 25 THEN Num(s, 21, 22) ELSE 0
        om == IF Len(s) = 25 THEN Num(s, 24, 25) ELSE 0
        good == /\ shape
                /\ mo \in 1..12
                /\ d \in 1..DaysIn(mo, y)
                /\ h \in 0..23 /\ mi \in 0..59 /\ sec \in 0..59
                /\ oh \in 0..23 /\ om \in 0..59
        off == IF good /\ s[20] = "-" THEN 0 - (oh * 60 + om) ELSE oh * 60 + om
    IN [ok |-> good,
        tm |-> IF good THEN <<y, mo, d, h, mi, sec, off>> ELSE ZeroTime]

(***************************************************************************)
(* Errors.  kind is the error kind of the specification; the other fields  *)
(* are what the message built by fmt.Errorf carries: the field name added  *)
(* by Load (0: none; a field is named by its index), the key, the raw      *)
(* text, the type name, and whether a parser's error is wrapped with %w.   *)
(***************************************************************************)
Err(kind, key, raw, typ, wrapped) ==
    [kind |-> kind, field |-> 0, key |-> key, raw |-> raw, typ |-> typ,
     wrapped |-> wrapped]

NoErr == Err("nil", <<>>, <<>>, "", FALSE)

\* fmt.Errorf("unable to find env variable with key %s", key)
NotFound(key) == Err("NotFound", key, <<>>, "", FALSE)

(***************************************************************************)
(* The environment: os.Getenv gives "" for a variable that is not set.     *)
(***************************************************************************)
Getenv(e, key) ==
    IF key \in DOMAIN e /\ e[key] # Unset THEN e[key] ELSE <<>>

(***************************************************************************)
(* The TryGet accessors.  Each gives [err, v]; v is the zero value of the  *)
(* type when err is not nil.                                               *)
(***************************************************************************)
TryGetEnv(e, key) ==
    LET v == Getenv(e, key)
    IN IF v # <<>> THEN [err |-> NoErr, v |-> StrVal(v)]
       ELSE [err |-> NotFound(key), v |-> StrVal(<<>>)]

TryGetEnvInt(e, key) ==
    LET v == Getenv(e, key)
        p == Atoi(v)
    IN IF v # <<>>
       THEN IF ~p.ok
            THEN [err |-> Err("InvalidFormat", <<>>, v, "", FALSE), v |-> IntVal(0)]
            ELSE [err |-> NoErr, v |-> IntVal(p.n)]
       ELSE [err |-> NotFound(key), v |-> IntVal(0)]

TryGetEnvFloat32(e, key) ==
    LET v == Getenv(e, key)
        p == ParseFloat(v, 32)
    IN IF v # <<>>
       THEN IF ~p.ok
            THEN [err |-> Err("InvalidFormat", <<>>, v, "", TRUE), v |-> FloatVal(0, 0)]
            ELSE [err |-> NoErr, v |-> FloatVal(p.m, p.e)]
       ELSE [err |-> NotFound(key), v |-> FloatVal(0, 0)]

TryGetEnvFloat64(e, key) ==
    LET v == Getenv(e, key)
        p == ParseFloat(v, 64)
    IN IF v # <<>>
       THEN IF ~p.ok
            THEN [err |-> Err("InvalidFormat", <<>>, v, "", TRUE), v |-> FloatVal(0, 0)]
            ELSE [err |-> NoErr, v |-> FloatVal(p.m, p.e)]
       ELSE [err |-> NotFound(key), v |-> FloatVal(0, 0)]

\* TryGetEnvBool without the test for the empty text.
TryGetEnvBool_ParsesEmpty(e, key) ==
    LET v == Getenv(e, key)
        p == ParseBool(v)
    IN IF ~p.ok
       THEN [err |-> Err("InvalidFormat", <<>>, v, "", TRUE), v |-> BoolVal(FALSE)]
       ELSE [err |-> NoErr, v |-> BoolVal(p.b)]

TryGetEnvBool(e, key) ==
    LET v == Getenv(e, key)
        p == ParseBool(v)
    IN IF v # <<>>
       THEN IF ~p.ok
            THEN [err |-> Err("InvalidFormat", <<>>, v, "", TRUE), v |-> BoolVal(FALSE)]
            ELSE [err |-> NoErr, v |-> BoolVal(p.b)]
       ELSE [err |-> NotFound(key), v |-> BoolVal(FALSE)]

TryGetEnvTime(e, key) ==
    LET v == Getenv(e, key)
        p == ParseRFC3339(v)
    IN IF v # <<>>
       THEN IF ~p.ok
            THEN [err |-> Err("InvalidFormat", <<>>, v, "", TRUE), v |-> TimeVal(ZeroTime)]
            ELSE [err |-> NoErr, v |-> TimeVal(p.tm)]
       ELSE [err |-> NotFound(key), v |-> TimeVal(ZeroTime)]

\* TryGetEnvDuration answering "not found" for a text it cannot parse.
TryGetEnvDuration_NotFoundOnBadText(e, key) ==
    LET v == Getenv(e, key)
        p == ParseDuration(v)
    IN IF v # <<>> /\ p.ok THEN [err |-> NoErr, v |-> IntVal(p.n)]
       ELSE [err |-> NotFound(key), v |-> IntVal(0)]

TryGetEnvDuration(e, key) ==
    LET v == Getenv(e, key)
        p == ParseDuration(v)
    IN IF v # <<>>
       THEN IF ~p.ok
            THEN [err |-> Err("InvalidFormat", <<>>, v, "", TRUE), v |-> IntVal(0)]
            ELSE [err |-> NoErr, v |-> IntVal(p.n)]
       ELSE [err |-> NotFound(key), v |-> IntVal(0)]

(***************************************************************************)
(* The Get accessors: the value of the TryGet accessor, or the fallback    *)
(* when it returns an error.                                               *)
(***************************************************************************)
GetEnv(e, key, fallback) ==
    LET r == TryGetEnv(e, key)
    IN IF r.err # NoErr THEN fallback ELSE r.v

GetEnvInt(e, key, fallback) ==
    LET r == TryGetEnvInt(e, key)
    IN IF r.err # NoErr THEN fallback ELSE r.v

GetEnvFloat32(e, key, fallback) ==
    LET r == TryGetEnvFloat32(e, key)
    IN IF r.err # NoErr THEN fallback ELSE r.v

GetEnvFloat64(e, key, fallback) ==
    LET r == TryGetEnvFloat64(e, key)
    IN IF r.err # NoErr THEN fallback ELSE r.v

\* GetEnvBool giving false, not the fallback, for a text it cannot parse.
GetEnvBool_FalseOnBadText(e, key, fallback) ==
    LET r == TryGetEnvBool(e, key)
    IN IF r.err.kind = "NotFound" THEN fallback ELSE r.v

GetEnvBool(e, key, fallback) ==
    LET r == TryGetEnvBool(e, key)
    IN IF r.err # NoErr THEN fallback ELSE r.v

GetEnvTime(e, key, fallback) ==
    LET r == TryGetEnvTime(e, key)
    IN IF r.err # NoErr THEN fallback ELSE r.v

GetEnvDuration(e, key, fallback) ==
    LET r == TryGetEnvDuration(e, key)
    IN IF r.err # NoErr THEN fallback ELSE r.v

(***************************************************************************)
(* The MustGet accessors: the value of the TryGet accessor, or a panic     *)
(* whose payload is the error it returns.                                  *)
(***************************************************************************)
\* No value: what a call that panicked gives its caller.
NoVal == Val("none", 0, 0, <<>>, <<>>)

Panic(err) == [panicked |-> TRUE, err |-> err, v |-> NoVal]

Return(v) == [panicked |-> FALSE, err |-> NoErr, v |-> v]

MustGetEnv(e, key) ==
    LET r == TryGetEnv(e, key)
    IN IF r.err # NoErr THEN Panic(r.err) ELSE Return(r.v)

MustGetEnvInt(e, key) ==
    LET r == TryGetEnvInt(e, key)
    IN IF r.err # NoErr THEN Panic(r.err) ELSE Return(r.v)

MustGetEnvFloat32(e, key) ==
    LET r == TryGetEnvFloat32(e, key)
    IN IF r.err # NoErr THEN Panic(r.err) ELSE Return(r.v)

MustGetEnvFloat64(e, key) ==
    LET r == TryGetEnvFloat64(e, key)
    IN IF r.err # NoErr THEN Panic(r.err) ELSE Return(r.v)

MustGetEnvBool(e, key) ==
    LET r == TryGetEnvBool(e, key)
    IN IF r.err # NoErr THEN Panic(r.err) ELSE Return(r.v)

\* MustGetEnvTime giving the zero time, not a panic, for a missing variable.
MustGetEnvTime_QuietWhenMissing(e, key) ==
    LET r == TryGetEnvTime(e, key)
    IN IF r.err # NoErr /\ r.err.kind # "NotFound" THEN Panic(r.err)
       ELSE Return(r.v)

MustGetEnvTime(e, key) ==
    LET r == TryGetEnvTime(e, key)
    IN IF r.err # NoErr THEN Panic(r.err) ELSE Return(r.v)

MustGetEnvDuration(e, key) ==
    LET r == TryGetEnvDuration(e, key)
    IN IF r.err # NoErr THEN Panic(r.err) ELSE Return(r.v)

(***************************************************************************)
(* Field types: the reflect.Kind of a field and its declared type.         *)
(* time.Duration is of kind Int64 and time.Time of kind Struct.            *)
(***************************************************************************)
Typ(kind, typ) == [kind |-> kind, typ |-> typ]

IntKinds == {"Int", "Int8", "Int16", "Int32", "Int64"}

SupportedTypes ==
    {Typ("String", "string"), Typ("Int", "int"), Typ("Int8", "int8"),
     Typ("Int16", "int16"), Typ("Int32", "int32"), Typ("Int64", "int64"),
     Typ("Float32", "float32"), Typ("Float64", "float64"), Typ("Bool", "bool"),
     Typ("Struct", "time.Time"), Typ("Int64", "time.Duration")}

\* Types setField has no case for: two of other kinds, one nested struct.
OtherTypes == {Typ("Uint", "uint"), Typ("Slice", "[]string"), Typ("Struct", "Inner")}

\* reflect.Kind.String() for the kinds setField has no case for.
KindString(kind) ==
    CASE kind = "Uint" -> "uint"
      [] kind = "Slice" -> "slice"
      [] OTHER -> "struct"

FieldTypes == SupportedTypes \cup OtherTypes

\* The zero value of a field of type ty.
Zero(ty) ==
    CASE ty.kind = "String" -> StrVal(<<>>)
      [] ty.kind \in IntKinds -> IntVal(0)
      [] ty.kind \in {"Float32", "Float64"} -> FloatVal(0, 0)
      [] ty.kind = "Bool" -> BoolVal(FALSE)
      [] ty.typ = "time.Time" -> TimeVal(ZeroTime)
      [] OTHER -> OtherVal(0)

(***************************************************************************)
(* reflect.Value.SetInt stores x converted to the field's width:           *)
(* int8(x), int16(x), int32(x), ...  A conversion keeps the low bits.      *)
(* The integers of the model stay below 2^31, so the conversion changes a  *)
(* value only for Int8 and Int16.                                          *)
(***************************************************************************)
Pow2(w) == IF w = 8 THEN 256 ELSE 65536

Narrow(x, w) ==
    LET r == x % Pow2(w)
    IN IF r >= Pow2(w) \div 2 THEN r - Pow2(w) ELSE r

SetInt(kind, x) ==
    CASE kind = "Int8" -> IntVal(Narrow(x, 8))
      [] kind = "Int16" -> IntVal(Narrow(x, 16))
      [] OTHER -> IntVal(x)

(***************************************************************************)
(* setField(field, envKey, fallback).  ty is the field's type and cur the  *)
(* value it holds; the result is the error and the value the field holds   *)
(* afterwards.                                                             *)
(***************************************************************************)
InvalidFallback(fallback) == Err("InvalidFallback", <<>>, fallback, "", TRUE)

Ret(err, v) == [err |-> err, v |-> v]

\* setFieldString without the fallback branch.
setFieldString_NoFallback(e, ty, cur, envKey, fallback) ==
    LET r == TryGetEnv(e, envKey)
    IN IF r.err # NoErr THEN Ret(r.err, cur)
       ELSE Ret(NoErr, StrVal(r.v.s))

\* case reflect.String
setFieldString(e, ty, cur, envKey, fallback) ==
    LET r == TryGetEnv(e, envKey)
    IN IF r.err # NoErr
       THEN IF fallback # <<>> THEN Ret(NoErr, StrVal(fallback))
            ELSE Ret(r.err, cur)
       ELSE Ret(NoErr, StrVal(r.v.s))

\* setFieldDuration that sets the field only when it holds the zero value.
setFieldDuration_KeepsNonZero(e, ty, cur, envKey, fallback) ==
    LET r == TryGetEnvDuration(e, envKey)
        d == ParseDuration(fallback)
    IN IF cur # IntVal(0) THEN Ret(NoErr, cur)
       ELSE IF r.err # NoErr
       THEN IF fallback # <<>>
            THEN IF ~d.ok THEN Ret(InvalidFallback(fallback), cur)
                 ELSE Ret(NoErr, SetInt(ty.kind, d.n))
            ELSE Ret(r.err, cur)
       ELSE Ret(NoErr, SetInt(ty.kind, r.v.n))

\* case reflect.Int, ..., reflect.Int64 with field.Type() == time.Duration
setFieldDuration(e, ty, cur, envKey, fallback) ==
    LET r == TryGetEnvDuration(e, envKey)
        d == ParseDuration(fallback)
    IN IF r.err # NoErr
       THEN IF fallback # <<>>
            THEN IF ~d.ok THEN Ret(InvalidFallback(fallback), cur)
                 ELSE Ret(NoErr, SetInt(ty.kind, d.n))
            ELSE Ret(r.err, cur)
       ELSE Ret(NoErr, SetInt(ty.kind, r.v.n))

\* setFieldInt with the fallback tag consulted before the environment.
setFieldInt_FallbackFirst(e, ty, cur, envKey, fallback) ==
    LET r == TryGetEnvInt(e, envKey)
        i == Atoi(fallback)
    IN IF fallback # <<>>
       THEN IF ~i.ok THEN Ret(InvalidFallback(fallback), cur)
            ELSE Ret(NoErr, SetInt(ty.kind, i.n))
       ELSE IF r.err # NoErr THEN Ret(r.err, cur)
       ELSE Ret(NoErr, SetInt(ty.kind, r.v.n))

\* setFieldInt with the fallback used only when the variable is missing.
setFieldInt_FallbackOnlyIfMissing(e, ty, cur, envKey, fallback) ==
    LET r == TryGetEnvInt(e, envKey)
        i == Atoi(fallback)
    IN IF r.err # NoErr
       THEN IF fallback # <<>> /\ r.err.kind = "NotFound"
            THEN IF ~i.ok THEN Ret(InvalidFallback(fallback), cur)
                 ELSE Ret(NoErr, SetInt(ty.kind, i.n))
            ELSE Ret(r.err, cur)
       ELSE Ret(NoErr, SetInt(ty.kind, r.v.n))

\* case reflect.Int, ..., reflect.Int64 with any other type
setFieldInt(e, ty, cur, envKey, fallback) ==
    LET r == TryGetEnvInt(e, envKey)
        i == Atoi(fallback)
    IN IF r.err # NoErr
       THEN IF fallback # <<>>
            THEN IF ~i.ok THEN Ret(InvalidFallback(fallback), cur)
                 ELSE Ret(NoErr, SetInt(ty.kind, i.n))
            ELSE Ret(r.err, cur)
       ELSE Ret(NoErr, SetInt(ty.kind, r.v.n))

\* case reflect.Float32
setFieldFloat32(e, ty, cur, envKey, fallback) ==
    LET r == TryGetEnvFloat32(e, envKey)
        f == ParseFloat(fallback, 32)
    IN IF r.err # NoErr
       THEN IF fallback # <<>>
            THEN IF ~f.ok THEN Ret(InvalidFallback(fallback), cur)
                 ELSE Ret(NoErr, FloatVal(f.m, f.e))
            ELSE Ret(r.err, cur)
       ELSE Ret(NoErr, r.v)

\* setFieldFloat64 clearing the field when it fails.
setFieldFloat64_ZeroOnError(e, ty, cur, envKey, fallback) ==
    LET r == TryGetEnvFloat64(e, envKey)
        f == ParseFloat(fallback, 64)
    IN IF r.err # NoErr
       THEN IF fallback # <<>>
            THEN IF ~f.ok THEN Ret(InvalidFallback(fallback), FloatVal(0, 0))
                 ELSE Ret(NoErr, FloatVal(f.m, f.e))
            ELSE Ret(r.err, FloatVal(0, 0))
       ELSE Ret(NoErr, r.v)

\* case reflect.Float64
setFieldFloat64(e, ty, cur, envKey, fallback) ==
    LET r == TryGetEnvFloat64(e, envKey)
        f == ParseFloat(fallback, 64)
    IN IF r.err # NoErr
       THEN IF fallback # <<>>
            THEN IF ~f.ok THEN Ret(InvalidFallback(fallback), cur)
                 ELSE Ret(NoErr, FloatVal(f.m, f.e))
            ELSE Ret(r.err, cur)
       ELSE Ret(NoErr, r.v)

\* setFieldBool parsing the fallback tag before it looks at the variable.
setFieldBool_EagerFallback(e, ty, cur, envKey, fallback) ==
    LET r == TryGetEnvBool(e, envKey)
        b == ParseBool(fallback)
    IN IF fallback # <<>> /\ ~b.ok THEN Ret(InvalidFallback(fallback), cur)
       ELSE IF r.err # NoErr
       THEN IF fallback # <<>> THEN Ret(NoErr, BoolVal(b.b))
            ELSE Ret(r.err, cur)
       ELSE Ret(NoErr, r.v)

\* case reflect.Bool
setFieldBool(e, ty, cur, envKey, fallback) ==
    LET r == TryGetEnvBool(e, envKey)
        b == ParseBool(fallback)
    IN IF r.err # NoErr
       THEN IF fallback # <<>>
            THEN IF ~b.ok THEN Ret(InvalidFallback(fallback), cur)
                 ELSE Ret(NoErr, BoolVal(b.b))
            ELSE Ret(r.err, cur)
       ELSE Ret(NoErr, r.v)

\* setFieldTime without the fallback branch.
setFieldTime_NoFallback(e, ty, cur, envKey, fallback) ==
    LET r == TryGetEnvTime(e, envKey)
    IN IF r.err # NoErr THEN Ret(r.err, cur)
       ELSE Ret(NoErr, r.v)

\* case reflect.Struct with field.Type() == time.Time
setFieldTime(e, ty, cur, envKey, fallback) ==
    LET r == TryGetEnvTime(e, envKey)
        t == ParseRFC3339(fallback)
    IN IF r.err # NoErr
       THEN IF fallback # <<>>
            THEN IF ~t.ok THEN Ret(InvalidFallback(fallback), cur)
                 ELSE Ret(NoErr, TimeVal(t.tm))
            ELSE Ret(r.err, cur)
       ELSE Ret(NoErr, r.v)

\* setField with unsigned integers handled by the case of the signed ones.
setField_UintAsInt(e, ty, cur, envKey, fallback) ==
    CASE ty.kind = "String" -> setFieldString(e, ty, cur, envKey, fallback)
      [] ty.kind \in IntKinds \cup {"Uint"} ->
            IF ty.typ = "time.Duration"
            THEN setFieldDuration(e, ty, cur, envKey, fallback)
            ELSE setFieldInt(e, ty, cur, envKey, fallback)
      [] ty.kind = "Float32" -> setFieldFloat32(e, ty, cur, envKey, fallback)
      [] ty.kind = "Float64" -> setFieldFloat64(e, ty, cur, envKey, fallback)
      [] ty.kind = "Bool" -> setFieldBool(e, ty, cur, envKey, fallback)
      [] ty.kind = "Struct" ->
            IF ty.typ = "time.Time"
            THEN setFieldTime(e, ty, cur, envKey, fallback)
            ELSE Ret(Err("UnsupportedType", <<>>, <<>>, ty.typ, FALSE), cur)
      [] OTHER ->
            Ret(Err("UnsupportedType", <<>>, <<>>, KindString(ty.kind), FALSE), cur)

\* setField with every field of kind Int64 taken for a duration.
setField_DurationByKind(e, ty, cur, envKey, fallback) ==
    CASE ty.kind = "String" -> setFieldString(e, ty, cur, envKey, fallback)
      [] ty.kind \in IntKinds ->
            IF ty.kind = "Int64"
            THEN setFieldDuration(e, ty, cur, envKey, fallback)
            ELSE setFieldInt(e, ty, cur, envKey, fallback)
      [] ty.kind = "Float32" -> setFieldFloat32(e, ty, cur, envKey, fallback)
      [] ty.kind = "Float64" -> setFieldFloat64(e, ty, cur, envKey, fallback)
      [] ty.kind = "Bool" -> setFieldBool(e, ty, cur, envKey, fallback)
      [] ty.kind = "Struct" ->
            IF ty.typ = "time.Time"
            THEN setFieldTime(e, ty, cur, envKey, fallback)
            ELSE Ret(Err("UnsupportedType", <<>>, <<>>, ty.typ, FALSE), cur)
      [] OTHER ->
            Ret(Err("UnsupportedType", <<>>, <<>>, KindString(ty.kind), FALSE), cur)

\* The switch on field.Kind().
setField(e, ty, cur, envKey, fallback) ==
    CASE ty.kind = "String" -> setFieldString(e, ty, cur, envKey, fallback)
      [] ty.kind \in IntKinds ->
            IF ty.typ = "time.Duration"
            THEN setFieldDuration(e, ty, cur, envKey, fallback)
            ELSE setFieldInt(e, ty, cur, envKey, fallback)
      [] ty.kind = "Float32" -> setFieldFloat32(e, ty, cur, envKey, fallback)
      [] ty.kind = "Float64" -> setFieldFloat64(e, ty, cur, envKey, fallback)
      [] ty.kind = "Bool" -> setFieldBool(e, ty, cur, envKey, fallback)
      [] ty.kind = "Struct" ->
            IF ty.typ = "time.Time"
            THEN setFieldTime(e, ty, cur, envKey, fallback)
            ELSE Ret(Err("UnsupportedType", <<>>, <<>>, ty.typ, FALSE), cur)
      [] OTHER ->
            Ret(Err("UnsupportedType", <<>>, <<>>, KindString(ty.kind), FALSE), cur)

(***************************************************************************)
(* Struct fields as Load sees them: the type, whether the field is         *)
(* exported (reflect's CanSet, the target being addressable), and the      *)
(* goenv and fallback tags (<<>>: the tag is missing or empty).            *)
(***************************************************************************)
Decl(ty, exported, goenv, fallback) ==
    [ty |-> ty, exported |-> exported, goenv |-> goenv, fallback |-> fallback]

\* Fallback tags tried on a field of type ty: none, a literal of the type's
\* syntax, a literal of another syntax, and for the narrow integers a
\* literal that does not fit the width.
FallbackTexts(ty) ==
    CASE ty.kind = "String" -> {Empty, TxtBad}
      [] ty.typ = "time.Duration" -> {Empty, TxtDur, TxtOne, TxtZero}
      [] ty.kind \in {"Int8", "Int16"} -> {Empty, TxtOne, TxtBig, TxtBad}
      [] ty.kind \in {"Int", "Int32"} -> {Empty, TxtOne, TxtBad}
      [] ty.typ = "int64" -> {Empty, TxtOne, TxtBad}
      [] ty.kind \in {"Float32", "Float64"} -> {Empty, TxtFloat, TxtBad}
      [] ty.kind = "Bool" -> {Empty, TxtTrue, TxtBad}
      [] ty.typ = "time.Time" -> {Empty, TxtTime, TxtBad}
      [] ty.kind = "Uint" -> {Empty, TxtOne}
      [] OTHER -> {Empty}

EligibleDecls ==
    {Decl(ty, TRUE, KeyK, fb) : ty \in FieldTypes, fb \in {Empty, TxtOne, TxtZero, TxtBig, TxtFloat, TxtTrue, TxtDur, TxtTime, TxtBad}}

IneligibleDecls ==
    {Decl(Typ("String", "string"), FALSE, KeyK, TxtBad),
     Decl(Typ("Int", "int"), TRUE, Empty, TxtOne),
     Decl(Typ("Uint", "uint"), TRUE, Empty, Empty)}

Decls == {d \in EligibleDecls : d.fallback \in FallbackTexts(d.ty)} \cup IneligibleDecls

Eligible(d) == d.exported /\ d.goenv # <<>>

(***************************************************************************)
(* Targets: what the caller passes to Load.                                *)
(***************************************************************************)
Target(kind, decls) == [kind |-> kind, decls |-> decls]

\* Declarations that stand next to any other one in a struct of the model:
\* a field that needs its variable, one that always has a usable fallback,
\* a narrow integer, one with an unusable fallback, a duration, a field of
\* an unsupported type, an unexported field and an untagged one.
CoreDecls ==
    {Decl(Typ("String", "string"), TRUE, KeyK, Empty),
     Decl(Typ("Int", "int"), TRUE, KeyK, TxtOne),
     Decl(Typ("Int8", "int8"), TRUE, KeyK, Empty),
     Decl(Typ("Bool", "bool"), TRUE, KeyK, TxtBad),
     Decl(Typ("Int64", "time.Duration"), TRUE, KeyK, Empty),
     Decl(Typ("Uint", "uint"), TRUE, KeyK, TxtOne),
     Decl(Typ("String", "string"), FALSE, KeyK, TxtBad),
     Decl(Typ("Int", "int"), TRUE, Empty, TxtOne)}

\* Not a pointer (untyped nil, a struct by value), a nil pointer, a pointer
\* to something that is not a struct.
BadTargetKinds == {"nil", "struct", "nilPtr", "ptrString", "ptrPtr"}

BadTargets ==
    {Target(k, <<Decl(Typ("String", "string"), TRUE, KeyK, Empty)>>) :
        k \in BadTargetKinds}

\* A value other than the zero value, held by a field before the call.
Preset(ty) ==
    CASE ty.kind = "String" -> StrVal(<<"p">>)
      [] ty.kind \in IntKinds -> IntVal(9)
      [] ty.kind \in {"Float32", "Float64"} -> FloatVal(9, 0)
      [] ty.kind = "Bool" -> BoolVal(TRUE)
      [] ty.typ = "time.Time" -> TimeVal(<<1999, 12, 31, 23, 59, 59, 0>>)
      [] OTHER -> OtherVal(9)

(***************************************************************************)
(* Load(v).                                                                *)
(***************************************************************************)
\* The error returned as it is, without the field's name.
WrapField_Anonymous(i, err) == err

\* fmt.Errorf("field %s: %w", fieldType.Name, err)
WrapField(i, err) == [err EXCEPT !.field = i]

LoadRet(err, flds, calls) == [err |-> err, fields |-> flds, calls |-> calls]

\* What one round of the loop does to its field: whether setField was
\* called, its error, and the value the field holds afterwards.
Skipped(cur) == [called |-> FALSE, err |-> NoErr, v |-> cur]

Called(r) == [called |-> TRUE, err |-> r.err, v |-> r.v]

\* The body of the loop without the test for an empty goenv tag.
LoadField_NoTagCheck(e, d, cur) ==
    IF ~d.exported THEN Skipped(cur)
    ELSE Called(setField(e, d.ty, cur, d.goenv, d.fallback))

\* The body of the loop without the test that the field can be set.
LoadField_NoCanSetCheck(e, d, cur) ==
    IF d.goenv = <<>> THEN Skipped(cur)
    ELSE Called(setField(e, d.ty, cur, d.goenv, d.fallback))

\* The body of the loop, for the field declared as d and holding cur.
LoadField(e, d, cur) ==
    IF ~d.exported THEN Skipped(cur)
    ELSE IF d.goenv = <<>> THEN Skipped(cur)
    ELSE Called(setField(e, d.ty, cur, d.goenv, d.fallback))

RECURSIVE LoadLoop(_, _, _, _, _)

\* The end of a round going on after a failure; the first error is returned.
LoadStep_KeepsGoing(e, decls, flds, i, calls, r) ==
    LET rest == LoadLoop(e, decls, [flds EXCEPT ![i] = r.v], i + 1,
                         IF r.called THEN Append(calls, i) ELSE calls)
    IN IF r.err # NoErr
       THEN LoadRet(WrapField(i, r.err), rest.fields, rest.calls)
       ELSE rest

\* The end of a round that resets the fields after a failing one.
LoadStep_ClearsRest(e, decls, flds, i, calls, r) ==
    IF r.err # NoErr
    THEN LoadRet(WrapField(i, r.err),
                 [j \in 1..Len(decls) |->
                     IF j > i THEN Zero(decls[j].ty) ELSE flds[j]],
                 Append(calls, i))
    ELSE LoadLoop(e, decls, [flds EXCEPT ![i] = r.v], i + 1,
                  IF r.called THEN Append(calls, i) ELSE calls)

\* The end of a round: return the error with the field's name, or go on
\* with the next field.  r is what the round did to field i.
LoadStep(e, decls, flds, i, calls, r) ==
    IF r.err # NoErr
    THEN LoadRet(WrapField(i, r.err), [flds EXCEPT ![i] = r.v], Append(calls, i))
    ELSE LoadLoop(e, decls, [flds EXCEPT ![i] = r.v], i + 1,
                  IF r.called THEN Append(calls, i) ELSE calls)

\* The loop over the fields from index i on; calls lists the fields
\* setField has been called on.
LoadLoop(e, decls, flds, i, calls) ==
    IF i > Len(decls) THEN LoadRet(NoErr, flds, calls)
    ELSE LoadStep(e, decls, flds, i, calls, LoadField(e, decls[i], flds[i]))

\* Load without the test that the pointer refers to a struct.
LoadOf_NoStructCheck(e, tgt, flds) ==
    IF tgt.kind \notin {"ptrStruct", "ptrString", "ptrPtr"}
    THEN LoadRet(Err("InvalidTarget", <<>>, <<>>, "", FALSE), flds, <<>>)
    ELSE LoadLoop(e, tgt.decls, flds, 1, <<>>)

LoadOf(e, tgt, flds) ==
    IF tgt.kind \notin {"ptrStruct", "ptrString", "ptrPtr"}
    THEN LoadRet(Err("InvalidTarget", <<>>, <<>>, "", FALSE), flds, <<>>)
    ELSE IF tgt.kind # "ptrStruct"
    THEN LoadRet(Err("InvalidTarget", <<>>, <<>>, tgt.kind, FALSE), flds, <<>>)
    ELSE LoadLoop(e, tgt.decls, flds, 1, <<>>)

(***************************************************************************)
(* The canonical text of a value, as the standard formatters write it:     *)
(* strconv.Itoa, strconv.FormatBool, strconv.FormatFloat (shortest         *)
(* decimal), Duration.String and Time.Format(time.RFC3339).                *)
(***************************************************************************)
RECURSIVE DecText(_)
\* The decimal digits of n >= 0.
DecText(n) ==
    IF n < 10 THEN <<Digits[n + 1]>>
    ELSE DecText(n \div 10) \o <<Digits[(n % 10) + 1]>>

Abs(n) == IF n < 0 THEN 0 - n ELSE n

Signed(n, text) == IF n < 0 THEN <<"-">> \o text ELSE text

RECURSIVE Pad(_, _)
\* text with zeros in front up to w characters.
Pad(text, w) == IF Len(text) >= w THEN text ELSE Pad(<<"0">> \o text, w)

RECURSIVE Pow10(_)
Pow10(k) == IF k <= 0 THEN 1 ELSE 10 * Pow10(k - 1)

FormatInt(n) == Signed(n, DecText(Abs(n)))

FormatBool(b) == IF b = 1 THEN TxtTrue ELSE <<"f", "a", "l", "s", "e">>

\* digits with a point before the last k of them (k >= 1).
PointBefore(digits, k) ==
    SubSeq(digits, 1, Len(digits) - k) \o <<".">>
        \o SubSeq(digits, Len(digits) - k + 1, Len(digits))

\* m * 10^e with m not a multiple of 10 (or m = e = 0).
FormatFloat(m, e) ==
    Signed(m, IF e >= 0 THEN DecText(Abs(m) * Pow10(e))
              ELSE PointBefore(Pad(DecText(Abs(m)), 1 - e), 0 - e))

\* Duration.String for a whole number of milliseconds that is below one
\* second or a whole number of seconds.
FormatDuration(ms) ==
    LET secs == Abs(ms) \div 1000
        h == secs \div 3600
        m == (secs % 3600) \div 60
    IN IF ms = 0 THEN <<"0", "s">>
       ELSE IF Abs(ms) < 1000 THEN Signed(ms, DecText(Abs(ms)) \o <<"m", "s">>)
       ELSE Signed(ms,
                (IF h > 0 THEN DecText(h) \o <<"h">> ELSE <<>>)
                \o (IF h > 0 \/ m > 0 THEN DecText(m) \o <<"m">> ELSE <<>>)
                \o DecText(secs % 60) \o <<"s">>)

FormatRFC3339(tm) ==
    Pad(DecText(tm[1]), 4) \o <<"-">> \o Pad(DecText(tm[2]), 2) \o <<"-">>
        \o Pad(DecText(tm[3]), 2) \o <<"T">> \o Pad(DecText(tm[4]), 2)
        \o <<":">> \o Pad(DecText(tm[5]), 2) \o <<":">>
        \o Pad(DecText(tm[6]), 2)
        \o (IF tm[7] = 0 THEN <<"Z">>
            ELSE <<IF tm[7] < 0 THEN "-" ELSE "+">>
                 \o Pad(DecText(Abs(tm[7]) \div 60), 2) \o <<":">>
                 \o Pad(DecText(Abs(tm[7]) % 60), 2))

\* The accessors come in seven types.
AccTypes == {"string", "int", "float32", "float64", "bool", "time", "duration"}

\* Values of each type: zero, small, large, negative, fractional; a time
\* in UTC and one in another zone.
Values(T) ==
    CASE T = "string" -> {StrVal(TxtBad), StrVal(TxtOne)}
      [] T = "int" -> {IntVal(0), IntVal(1), IntVal(40000), IntVal(0 - 7)}
      [] T \in {"float32", "float64"} ->
            {FloatVal(0, 0), FloatVal(15, 0 - 1), FloatVal(0 - 25, 0 - 2),
             FloatVal(4, 4)}
      [] T = "bool" -> {BoolVal(TRUE), BoolVal(FALSE)}
      [] T = "time" -> {TimeVal(<<2025, 1, 1, 0, 0, 0, 0>>),
                        TimeVal(<<2024, 2, 29, 23, 59, 59, 0 - 330>>)}
      [] OTHER -> {IntVal(0), IntVal(250), IntVal(30000), IntVal(5400000),
                   IntVal(0 - 30000)}

Canonical(T, v) ==
    CASE T = "string" -> v.s
      [] T = "int" -> FormatInt(v.n)
      [] T \in {"float32", "float64"} -> FormatFloat(v.n, v.e)
      [] T = "bool" -> FormatBool(v.n)
      [] T = "time" -> FormatRFC3339(v.tm)
      [] OTHER -> FormatDuration(v.n)

CanonicalTexts == UNION {{Canonical(T, v) : v \in Values(T)} : T \in AccTypes}

(***************************************************************************)
(* State.                                                                  *)
(***************************************************************************)
VARIABLES
    env,        \* the process environment: key -> text, or Unset
    target,     \* the argument of Load: its kind and the fields of its type
    fields,     \* the values the target's fields hold
    err,        \* what the last call of Load returned
    returned,   \* whether Load has been called and has returned
    before,     \* the values the fields held when Load was last called
    calls,      \* the fields the last call of Load passed to setField
    last,       \* the accessor call that has just returned, and its result
    seen,       \* the error kind the accessor call before that one gave
                \* ("none": there was none, "nil": it gave no error)
    pc,         \* the field the running call of Load is at (the loop's
                \* i + 1), 0 when no call of Load is running
    lookups     \* the os.Getenv calls of the last call of Load: the field
                \* each was made for and the text it gave

\* err, returned, before, calls and last describe the call that has just
\* returned: a call of an accessor clears what is known of Load, a call of
\* Load clears last, and a change of the environment clears both.
vars == <<env, target, fields, err, returned, before, calls, last, seen,
          pc, lookups>>

\* No accessor call has just returned.
NoCall ==
    [op |-> "none", ty |-> "", key |-> <<>>, fb |-> NoVal, panicked |-> FALSE,
     err |-> NoErr, v |-> NoVal]

\* The error kind of the most recent accessor call, as the next call finds it.
Seen == IF last.op = "none" THEN seen ELSE last.err.kind

Envs == [Keys -> EnvTexts \cup {Unset}]

\* One call of os.Getenv made for field i.
Lookup(i, text) == [field |-> i, text |-> text]

\* Every case of setField for a supported type starts with the TryGet
\* accessor of the type, which calls os.Getenv once; the other cases return
\* without a call.
LooksUp(d) == d.ty \in SupportedTypes

\* The lookups of a call of Load that passed the fields listed in passed
\* to setField while the environment was e.
LookupsOf(e, decls, passed) ==
    LET s == SelectSeq(passed, LAMBDA i : LooksUp(decls[i]))
    IN [j \in 1..Len(s) |-> Lookup(s[j], Getenv(e, decls[s[j]].goenv))]

\* The struct types of the model have up to MaxFields fields: any
\* declaration at one position and core declarations at the others.  The
\* fields hold their zero values or, all of them, other values.
Init ==
    /\ env \in Envs
    /\ \/ \E k \in 1..MaxFields : \E s \in [1..k -> CoreDecls] :
             \E p \in 1..k : \E d \in Decls :
                target = Target("ptrStruct", [s EXCEPT ![p] = d])
       \/ target \in BadTargets
    /\ \E prepop \in BOOLEAN :
          fields = [i \in 1..Len(target.decls) |->
                        IF prepop THEN Preset(target.decls[i].ty)
                        ELSE Zero(target.decls[i].ty)]
    /\ err = NoErr
    /\ returned = FALSE
    /\ before = fields
    /\ calls = <<>>
    /\ last = NoCall
    /\ seen = "none"
    /\ pc = 0
    /\ lookups = <<>>

\* Load that also sets every variable it did not find to the empty text.
Load_ExportsMissing ==
    /\ LET r == LoadOf(env, target, fields)
       IN /\ fields' = r.fields
          /\ err' = r.err
          /\ calls' = r.calls
          /\ lookups' = LookupsOf(env, target.decls, r.calls)
    /\ before' = fields
    /\ returned' = TRUE
    /\ last' = NoCall
    /\ seen' = Seen
    /\ env' = [k \in Keys |-> IF env[k] = Unset THEN Empty ELSE env[k]]
    /\ UNCHANGED <<target, pc>>

\* The program calls Load on the target.
Load ==
    /\ LET r == LoadOf(env, target, fields)
       IN /\ fields' = r.fields
          /\ err' = r.err
          /\ calls' = r.calls
          /\ lookups' = LookupsOf(env, target.decls, r.calls)
    /\ before' = fields
    /\ returned' = TRUE
    /\ last' = NoCall
    /\ seen' = Seen
    /\ UNCHANGED <<env, target, pc>>

Next == Load

Spec == Init /\ [][Next]_vars

(***************************************************************************)
(* The accessors called by a program that also changes its environment.    *)
(***************************************************************************)
\* The environment holds the texts above and the canonical texts of values.
LiveTexts == EnvTexts \cup CanonicalTexts

\* The fallback arguments passed to the Get accessors.
Fallbacks(T) ==
    CASE T = "string" -> {StrVal(<<"f">>)}
      [] T = "int" -> {IntVal(99)}
      [] T \in {"float32", "float64"} -> {FloatVal(99, 0)}
      [] T = "bool" -> {BoolVal(TRUE), BoolVal(FALSE)}
      [] T = "time" -> {TimeVal(<<2000, 1, 1, 0, 0, 0, 0>>)}
      [] OTHER -> {IntVal(77)}

TryGetAcc(T, e, key) ==
    CASE T = "string" -> TryGetEnv(e, key)
      [] T = "int" -> TryGetEnvInt(e, key)
      [] T = "float32" -> TryGetEnvFloat32(e, key)
      [] T = "float64" -> TryGetEnvFloat64(e, key)
      [] T = "bool" -> TryGetEnvBool(e, key)
      [] T = "time" -> TryGetEnvTime(e, key)
      [] OTHER -> TryGetEnvDuration(e, key)

GetAcc(T, e, key, fallback) ==
    CASE T = "string" -> GetEnv(e, key, fallback)
      [] T = "int" -> GetEnvInt(e, key, fallback)
      [] T = "float32" -> GetEnvFloat32(e, key, fallback)
      [] T = "float64" -> GetEnvFloat64(e, key, fallback)
      [] T = "bool" -> GetEnvBool(e, key, fallback)
      [] T = "time" -> GetEnvTime(e, key, fallback)
      [] OTHER -> GetEnvDuration(e, key, fallback)

MustGetAcc(T, e, key) ==
    CASE T = "string" -> MustGetEnv(e, key)
      [] T = "int" -> MustGetEnvInt(e, key)
      [] T = "float32" -> MustGetEnvFloat32(e, key)
      [] T = "float64" -> MustGetEnvFloat64(e, key)
      [] T = "bool" -> MustGetEnvBool(e, key)
      [] T = "time" -> MustGetEnvTime(e, key)
      [] OTHER -> MustGetEnvDuration(e, key)

\* The outcome of a call as its caller sees it.
Outcome(panicked, e, v) == [panicked |-> panicked, err |-> e, v |-> v]

\* An accessor call returns: what it gave is recorded.
Returns(op, T, key, fb, r) ==
    /\ last' = [op |-> op, ty |-> T, key |-> key, fb |-> fb,
                panicked |-> r.panicked, err |-> r.err, v |-> r.v]
    /\ seen' = Seen
    /\ err' = NoErr
    /\ returned' = FALSE
    /\ before' = fields
    /\ calls' = <<>>
    /\ lookups' = <<>>
    /\ UNCHANGED <<env, target, fields, pc>>

\* TryGet that answers NotFound again once it has answered NotFound.
TryGetCall_Cached ==
    \E T \in AccTypes : \E k \in Keys :
        IF Seen = "NotFound"
        THEN Returns("TryGet", T, k, NoVal, Outcome(FALSE, NotFound(k), NoVal))
        ELSE Returns("TryGet", T, k, NoVal,
                     Outcome(FALSE, TryGetAcc(T, env, k).err, TryGetAcc(T, env, k).v))

\* The program calls a TryGet accessor.
TryGetCall ==
    \E T \in AccTypes : \E k \in Keys :
        Returns("TryGet", T, k, NoVal,
                Outcome(FALSE, TryGetAcc(T, env, k).err, TryGetAcc(T, env, k).v))

\* The program calls a Get accessor.
GetCall ==
    \E T \in AccTypes : \E k \in Keys : \E fb \in Fallbacks(T) :
        Returns("Get", T, k, fb, Outcome(FALSE, NoErr, GetAcc(T, env, k, fb)))

\* The program calls a MustGet accessor (and recovers if it panics).
MustGetCall ==
    \E T \in AccTypes : \E k \in Keys :
        Returns("MustGet", T, k, NoVal, MustGetAcc(T, env, k))

\* What is known of the last call is forgotten.
Forget ==
    /\ last' = NoCall
    /\ seen' = Seen
    /\ err' = NoErr
    /\ returned' = FALSE
    /\ before' = fields
    /\ calls' = <<>>
    /\ lookups' = <<>>

\* The program sets a variable (os.Setenv), possibly to the empty text.
Setenv ==
    \E k \in Keys : \E text \in LiveTexts :
        /\ env' = [env EXCEPT ![k] = text]
        /\ Forget
        /\ UNCHANGED <<target, fields, pc>>

\* The program removes a variable (os.Unsetenv).
Unsetenv ==
    \E k \in Keys :
        /\ env' = [env EXCEPT ![k] = Unset]
        /\ Forget
        /\ UNCHANGED <<target, fields, pc>>

\* Two struct types: an int field without a fallback followed by a
\* Duration field with one, and a single string field.
LiveTargets ==
    {Target("ptrStruct", <<Decl(Typ("Int", "int"), TRUE, KeyK, Empty),
                           Decl(Typ("Int64", "time.Duration"), TRUE, KeyK, TxtDur)>>),
     Target("ptrStruct", <<Decl(Typ("String", "string"), TRUE, KeyK, Empty)>>)}

InitLive ==
    /\ env \in Envs
    /\ target \in LiveTargets
    /\ fields = [i \in 1..Len(target.decls) |-> Zero(target.decls[i].ty)]
    /\ err = NoErr
    /\ returned = FALSE
    /\ before = fields
    /\ calls = <<>>
    /\ last = NoCall
    /\ seen = "none"
    /\ pc = 0
    /\ lookups = <<>>

NextLive == Setenv \/ Unsetenv \/ TryGetCall \/ GetCall \/ MustGetCall \/ Load

SpecLive == InitLive /\ [][NextLive]_vars

(***************************************************************************)
(* Load, one round of its loop at a time, while other code of the process  *)
(* changes the environment.  Load holds no lock and takes no copy of the   *)
(* environment: each round that calls setField reads the variable as it    *)
(* is at that moment.                                                      *)
(***************************************************************************)
StepTexts == {Unset, TxtOne, TxtZero, TxtBad}

\* A field that needs its variable, one with a usable fallback, one of an
\* unsupported type, an unexported one and an untagged one.
StepDecls ==
    {Decl(Typ("Int", "int"), TRUE, KeyK, Empty),
     Decl(Typ("Bool", "bool"), TRUE, KeyK, TxtOne),
     Decl(Typ("Uint", "uint"), TRUE, KeyK, TxtOne),
     Decl(Typ("String", "string"), FALSE, KeyK, TxtBad),
     Decl(Typ("Int", "int"), TRUE, Empty, TxtOne)}

InitSteps ==
    /\ env \in [Keys -> StepTexts]
    /\ \/ \E k \in 1..MaxFields : \E s \in [1..k -> StepDecls] :
             target = Target("ptrStruct", s)
       \/ target \in BadTargets
    /\ fields = [i \in 1..Len(target.decls) |-> Zero(target.decls[i].ty)]
    /\ err = NoErr
    /\ returned = FALSE
    /\ before = fields
    /\ calls = <<>>
    /\ last = NoCall
    /\ seen = "none"
    /\ pc = 0
    /\ lookups = <<>>

\* The program calls Load: the tests on the target, then the loop starts
\* at the first field.
LoadBegin ==
    /\ pc = 0
    /\ IF target.kind # "ptrStruct"
       THEN /\ err' = LoadOf(env, target, fields).err
            /\ returned' = TRUE
            /\ pc' = 0
       ELSE /\ err' = NoErr
            /\ returned' = FALSE
            /\ pc' = 1
    /\ before' = fields
    /\ calls' = <<>>
    /\ lookups' = <<>>
    /\ last' = NoCall
    /\ seen' = Seen
    /\ UNCHANGED <<env, target, fields>>

\* The lookup of a round that did r to the field declared as d.
LookedUp(i, d, r) ==
    IF r.called /\ LooksUp(d)
    THEN <<Lookup(i, Getenv(env, d.goenv))>>
    ELSE <<>>

\* The end of a round that stays at a field it skipped.
LoadFieldDone_StaysOnSkipped(i, r, looked) ==
    /\ fields' = [fields EXCEPT ![i] = r.v]
    /\ calls' = IF r.called THEN Append(calls, i) ELSE calls
    /\ lookups' = lookups \o looked
    /\ IF r.err # NoErr
       THEN /\ err' = WrapField(i, r.err)
            /\ returned' = TRUE
            /\ pc' = 0
       ELSE /\ pc' = IF r.called THEN i + 1 ELSE i
            /\ UNCHANGED <<err, returned>>
    /\ UNCHANGED <<env, target, before, last, seen>>

\* The end of a round of the loop on field i: r is what the round did to
\* the field and looked the lookup it made.  Load returns the error with
\* the field's name, or goes on with the next field.
LoadFieldDone(i, r, looked) ==
    /\ fields' = [fields EXCEPT ![i] = r.v]
    /\ calls' = IF r.called THEN Append(calls, i) ELSE calls
    /\ lookups' = lookups \o looked
    /\ IF r.err # NoErr
       THEN /\ err' = WrapField(i, r.err)
            /\ returned' = TRUE
            /\ pc' = 0
       ELSE /\ pc' = i + 1
            /\ UNCHANGED <<err, returned>>
    /\ UNCHANGED <<env, target, before, last, seen>>

\* A round that reads the environment only once in a call of Load: later
\* fields get the text of the first lookup.
LoadFieldStep_ReusesLookup ==
    /\ pc \in 1..Len(target.decls)
    /\ IF lookups = <<>>
       THEN \E r \in {LoadField(env, target.decls[pc], fields[pc])} :
               LoadFieldDone(pc, r, LookedUp(pc, target.decls[pc], r))
       ELSE \E r \in {LoadField([k \in Keys |-> lookups[1].text],
                                 target.decls[pc], fields[pc])} :
               LoadFieldDone(pc, r, <<>>)

\* One round of the loop, on the field pc.
LoadFieldStep ==
    /\ pc \in 1..Len(target.decls)
    /\ \E r \in {LoadField(env, target.decls[pc], fields[pc])} :
          LoadFieldDone(pc, r, LookedUp(pc, target.decls[pc], r))

\* The loop is over: return nil.
LoadEnd ==
    /\ pc = Len(target.decls) + 1
    /\ pc' = 0
    /\ err' = NoErr
    /\ returned' = TRUE
    /\ UNCHANGED <<env, target, fields, before, calls, lookups, last, seen>>

\* Other code of the process sets or removes a variable while Load runs.
\* (The environment at the call is any environment, by InitSteps.)
OtherSetenv ==
    /\ pc > 0
    /\ \E k \in Keys : \E text \in StepTexts :
          env' = [env EXCEPT ![k] = text]
    /\ UNCHANGED <<target, fields, err, returned, before, calls, last, seen,
                   pc, lookups>>

NextSteps == LoadBegin \/ LoadFieldStep \/ LoadEnd \/ OtherSetenv

\* Load is straight-line code on the caller's goroutine: it waits for
\* nothing, so a round that can be taken is taken.
SpecSteps ==
    InitSteps /\ [][NextSteps]_vars /\ WF_vars(LoadFieldStep \/ LoadEnd)

(***************************************************************************)
(* Vocabulary of the properties.                                           *)
(*                                                                         *)
(* A text parses as a type when the type's parser accepts it and the       *)
(* number it denotes is a value of the type; Parsed is that value.         *)
(***************************************************************************)
InRange(kind, n) ==
    CASE kind = "Int8" -> n \in -128..127
      [] kind = "Int16" -> n \in -32768..32767
      [] OTHER -> TRUE

ParsesAs(ty, s) ==
    CASE ty.kind = "String" -> TRUE
      [] ty.typ = "time.Duration" -> ParseDuration(s).ok
      [] ty.kind \in IntKinds /\ ty.typ # "time.Duration" ->
            Atoi(s).ok /\ InRange(ty.kind, Atoi(s).n)
      [] ty.kind = "Float32" -> ParseFloat(s, 32).ok
      [] ty.kind = "Float64" -> ParseFloat(s, 64).ok
      [] ty.kind = "Bool" -> ParseBool(s).ok
      [] ty.typ = "time.Time" -> ParseRFC3339(s).ok
      [] OTHER -> FALSE

Parsed(ty, s) ==
    CASE ty.kind = "String" -> StrVal(s)
      [] ty.typ = "time.Duration" -> IntVal(ParseDuration(s).n)
      [] ty.kind \in IntKinds /\ ty.typ # "time.Duration" -> IntVal(Atoi(s).n)
      [] ty.kind = "Float32" -> FloatVal(ParseFloat(s, 32).m, ParseFloat(s, 32).e)
      [] ty.kind = "Float64" -> FloatVal(ParseFloat(s, 64).m, ParseFloat(s, 64).e)
      [] ty.kind = "Bool" -> BoolVal(ParseBool(s).b)
      [] ty.typ = "time.Time" -> TimeVal(ParseRFC3339(s).tm)
      [] OTHER -> OtherVal(0)

\* The TryGet accessor of a supported type.
TryGetOf(ty, e, key) ==
    CASE ty.kind = "String" -> TryGetEnv(e, key)
      [] ty.typ = "time.Duration" -> TryGetEnvDuration(e, key)
      [] ty.kind \in IntKinds /\ ty.typ # "time.Duration" -> TryGetEnvInt(e, key)
      [] ty.kind = "Float32" -> TryGetEnvFloat32(e, key)
      [] ty.kind = "Float64" -> TryGetEnvFloat64(e, key)
      [] ty.kind = "Bool" -> TryGetEnvBool(e, key)
      [] OTHER -> TryGetEnvTime(e, key)

NumField == Len(target.decls)

TypeOf(i) == target.decls[i].ty

KeyOf(i) == target.decls[i].goenv

FallbackOf(i) == target.decls[i].fallback

\* The text of field i's variable ("" when it is not set).
EnvText(i) == Getenv(env, KeyOf(i))

\* The eligible fields of a struct target.
EligibleFields ==
    {i \in 1..NumField : target.kind = "ptrStruct" /\ Eligible(target.decls[i])}

\* The eligible fields of a supported type.
SupportedFields == {i \in EligibleFields : TypeOf(i) \in SupportedTypes}

\* Load got to field i: it called setField on it.
Reached(i) == \E j \in 1..Len(calls) : calls[j] = i

\* Load returned an error for field i.
FailedAt(i) == returned /\ err # NoErr /\ err.field = i

EnvUsable(i) == EnvText(i) # <<>> /\ ParsesAs(TypeOf(i), EnvText(i))

FallbackUsable(i) == FallbackOf(i) # <<>> /\ ParsesAs(TypeOf(i), FallbackOf(i))

\* The error of the accessor call for field i.
AccessorErr(i) == TryGetOf(TypeOf(i), env, KeyOf(i)).err

(***************************************************************************)
(* C1: after a Load that returns nil, every eligible field holds the       *)
(* value parsed from its environment variable or the value parsed from     *)
(* its fallback literal.                                                   *)
(***************************************************************************)
C1_FieldsFromEnvOrFallback ==
    (returned /\ err = NoErr) =>
        \A i \in EligibleFields :
            \/ EnvUsable(i) /\ fields[i] = Parsed(TypeOf(i), EnvText(i))
            \/ FallbackUsable(i) /\ fields[i] = Parsed(TypeOf(i), FallbackOf(i))

(***************************************************************************)
(* C2: a field Load gets to whose variable is non-empty and parses as the  *)
(* field's type holds the environment value afterwards, whatever the       *)
(* fallback tag is, and Load does not fail at it.                          *)
(***************************************************************************)
C2_EnvBeforeFallback ==
    returned =>
        \A i \in EligibleFields :
            (Reached(i) /\ EnvUsable(i)) =>
                /\ fields[i] = Parsed(TypeOf(i), EnvText(i))
                /\ ~FailedAt(i)

\* An int field with variable 40000 and fallback 1 holds 40000.
C2_Witness ==
    /\ returned
    /\ \E i \in EligibleFields :
          /\ Reached(i) /\ EnvUsable(i) /\ FallbackUsable(i)
          /\ Parsed(TypeOf(i), FallbackOf(i)) # Parsed(TypeOf(i), EnvText(i))
          /\ fields[i] = Parsed(TypeOf(i), EnvText(i))
          /\ fields[i] # before[i]

(***************************************************************************)
(* C3: a field of a supported type that Load gets to, whose variable is    *)
(* absent or empty and whose fallback literal is non-empty and parses as   *)
(* the field's type, holds the parsed fallback afterwards and Load does    *)
(* not fail at it.                                                         *)
(***************************************************************************)
C3_FallbackWhenAbsent ==
    returned =>
        \A i \in SupportedFields :
            (Reached(i) /\ EnvText(i) = <<>> /\ FallbackUsable(i)) =>
                /\ fields[i] = Parsed(TypeOf(i), FallbackOf(i))
                /\ ~FailedAt(i)

\* A time.Time field whose variable is not set holds its fallback.
C3_Witness ==
    /\ returned
    /\ \E i \in SupportedFields :
          /\ TypeOf(i).typ = "time.Time"
          /\ Reached(i) /\ env[KeyK] = Unset /\ FallbackUsable(i)
          /\ fields[i] = Parsed(TypeOf(i), FallbackOf(i))
          /\ fields[i] # before[i]

(***************************************************************************)
(* C4: a field Load gets to whose accessor fails with InvalidFormat (the   *)
(* variable is non-empty and malformed) and whose fallback literal is      *)
(* non-empty and parses holds the parsed fallback afterwards and Load      *)
(* does not fail at it, as when the variable is absent.                    *)
(***************************************************************************)
C4_FallbackWhenMalformed ==
    returned =>
        \A i \in SupportedFields :
            (/\ Reached(i)
             /\ AccessorErr(i).kind = "InvalidFormat"
             /\ FallbackUsable(i)) =>
                /\ fields[i] = Parsed(TypeOf(i), FallbackOf(i))
                /\ ~FailedAt(i)

\* An int field with a malformed variable holds its fallback.
C4_Witness ==
    /\ returned
    /\ \E i \in SupportedFields :
          /\ TypeOf(i).typ = "int"
          /\ Reached(i) /\ EnvText(i) = TxtBad /\ FallbackUsable(i)
          /\ AccessorErr(i).kind = "InvalidFormat"
          /\ fields[i] = Parsed(TypeOf(i), FallbackOf(i))
          /\ fields[i] # before[i]

(***************************************************************************)
(* C5: when the accessor of a field Load gets to fails and the field's     *)
(* non-empty fallback literal does not parse as the field's type, Load     *)
(* fails at that field with InvalidFallback carrying the literal, the      *)
(* field keeps its value, and the accessor's error is not returned.        *)
(***************************************************************************)
C5_InvalidFallback ==
    returned =>
        \A i \in SupportedFields :
            (/\ Reached(i)
             /\ AccessorErr(i) # NoErr
             /\ FallbackOf(i) # <<>>
             /\ ~ParsesAs(TypeOf(i), FallbackOf(i))) =>
                /\ FailedAt(i)
                /\ err.kind = "InvalidFallback"
                /\ err.raw = FallbackOf(i)
                /\ fields[i] = before[i]

(***************************************************************************)
(* C6: when a field of a supported type has no fallback and its accessor   *)
(* fails, Load fails, whatever the other fields are; and if Load gets to   *)
(* the field, the error is the accessor's own error (NotFound for an       *)
(* absent or empty variable, InvalidFormat for a malformed one) with the   *)
(* field's name added.                                                     *)
(***************************************************************************)
C6_AccessorErrorSurfaces ==
    returned =>
        \A i \in SupportedFields :
            (FallbackOf(i) = <<>> /\ AccessorErr(i) # NoErr) =>
                /\ err # NoErr
                /\ Reached(i) =>
                      /\ err = [AccessorErr(i) EXCEPT !.field = i]
                      /\ err.kind = IF EnvText(i) = <<>> THEN "NotFound"
                                    ELSE "InvalidFormat"

\* The second field fails with InvalidFormat after the first was assigned.
C6_Witness ==
    /\ returned
    /\ NumField = 2
    /\ 1 \in EligibleFields /\ fields[1] # before[1]
    /\ 2 \in SupportedFields /\ FallbackOf(2) = <<>>
    /\ FailedAt(2) /\ err.kind = "InvalidFormat" /\ err.raw = EnvText(2)

(***************************************************************************)
(* C7: Load takes the fields in declaration order and stops at the first   *)
(* failure: it calls setField on eligible fields only, in increasing       *)
(* order; the error it returns names the lowest eligible field on which    *)
(* setField fails; the eligible fields before that one hold what setField  *)
(* assigned; no field after it is passed to setField.  With no failing     *)
(* field Load returns nil after every eligible field.                      *)
(***************************************************************************)
\* What setField does on field i in the environment of the call.
SetFieldOn(i) == setField(env, TypeOf(i), before[i], KeyOf(i), FallbackOf(i))

FailingFields == {i \in EligibleFields : SetFieldOn(i).err # NoErr}

C7_StopsAtFirstFailure ==
    (returned /\ target.kind = "ptrStruct") =>
        /\ \A j \in 1..Len(calls) : calls[j] \in EligibleFields
        /\ \A j \in 1..Len(calls), k \in 1..Len(calls) :
              j < k => calls[j] < calls[k]
        /\ IF FailingFields = {}
           THEN /\ err = NoErr
                /\ \A i \in EligibleFields :
                      Reached(i) /\ fields[i] = SetFieldOn(i).v
           ELSE LET f == CHOOSE i \in FailingFields :
                            \A j \in FailingFields : i <= j
                IN /\ err # NoErr
                   /\ err.field = f
                   /\ err.kind = SetFieldOn(f).err.kind
                   /\ \A i \in EligibleFields :
                         /\ i < f => Reached(i) /\ fields[i] = SetFieldOn(i).v
                         /\ i = f => Reached(i)
                         /\ i > f => ~Reached(i)

\* The first field was assigned and keeps its value; the second one fails.
C7_Witness ==
    /\ returned
    /\ NumField = 2
    /\ EligibleFields = {1, 2}
    /\ calls = <<1, 2>>
    /\ FailedAt(2)
    /\ fields[1] # before[1]
    /\ fields[1] = SetFieldOn(1).v

(***************************************************************************)
(* C8 as stated: when Load fails at a field, every field declared after    *)
(* it is zero-valued when Load returns, for any target.                    *)
(***************************************************************************)
C8_LaterFieldsZero ==
    \A f \in 1..NumField :
        FailedAt(f) =>
            \A j \in 1..NumField : j > f => fields[j] = Zero(TypeOf(j))

(***************************************************************************)
(* C8 as amended: when Load fails at a field, every field declared after   *)
(* it is left as it was: it is not passed to setField and holds at the     *)
(* return the value it held at the call (the zero value if the caller      *)
(* passed a zero-valued struct).                                           *)
(***************************************************************************)
C8_LaterFieldsUntouched ==
    \A f \in 1..NumField :
        FailedAt(f) =>
            \A j \in 1..NumField :
                j > f => fields[j] = before[j] /\ ~Reached(j)

\* Load failed at the first field; the second one, which is eligible and
\* would have been assigned, still holds the value the caller had put there.
C8_Witness ==
    /\ NumField = 2
    /\ FailedAt(1)
    /\ 2 \in EligibleFields
    /\ SetFieldOn(2).err = NoErr
    /\ SetFieldOn(2).v # before[2]
    /\ before[2] # Zero(TypeOf(2))
    /\ fields[2] = before[2]

(***************************************************************************)
(* C9: Load on a struct returns nil if and only if every eligible field    *)
(* has a supported type and either an environment value that parses as     *)
(* that type or a non-empty fallback literal that parses as that type;     *)
(* and when every eligible field's variable holds well-formed text, Load   *)
(* returns nil and each field equals the parsed value of its variable.     *)
(***************************************************************************)
C9_SucceedsIffAllUsable ==
    (returned /\ target.kind = "ptrStruct") =>
        /\ (err = NoErr) <=>
              \A i \in EligibleFields :
                  /\ TypeOf(i) \in SupportedTypes
                  /\ EnvUsable(i) \/ FallbackUsable(i)
        /\ (\A i \in EligibleFields : EnvUsable(i)) =>
              /\ err = NoErr
              /\ \A i \in EligibleFields :
                    fields[i] = Parsed(TypeOf(i), EnvText(i))

(***************************************************************************)
(* C10: a field that is untagged or unexported is never passed to          *)
(* setField and holds, when Load returns, the value it held at the call,   *)
(* whether Load succeeds or fails.                                         *)
(***************************************************************************)
C10_IneligibleUntouched ==
    returned =>
        \A i \in 1..NumField :
            ~Eligible(target.decls[i]) => fields[i] = before[i] /\ ~Reached(i)

\* Load succeeded and assigned a field; an untagged exported field with a
\* fallback tag still holds the value the caller had put there.
C10_Witness ==
    /\ returned /\ err = NoErr
    /\ target.kind = "ptrStruct"
    /\ \E i \in 1..NumField :
          /\ target.decls[i].exported
          /\ KeyOf(i) = <<>>
          /\ FallbackOf(i) # <<>>
          /\ fields[i] = Preset(TypeOf(i))
    /\ \E j \in EligibleFields : fields[j] # before[j]

(***************************************************************************)
(* C11 as stated: Load has a parser for exactly the eleven supported       *)
(* types.  An eligible field of any other type makes Load fail and is not  *)
(* assigned, whatever the variable and the fallback tag are; when Load     *)
(* gets to the field the error is UnsupportedType and names the field and  *)
(* the field's type.                                                       *)
(***************************************************************************)
\* Load has a case for the eligible field i: it never answers
\* UnsupportedType for it.  If it has none, Load fails and leaves the field.
C11_Accepts(i) ==
    IF TypeOf(i) \in SupportedTypes
    THEN ~(FailedAt(i) /\ err.kind = "UnsupportedType")
    ELSE /\ err # NoErr
         /\ fields[i] = before[i]
         /\ Reached(i) => FailedAt(i) /\ err.kind = "UnsupportedType"

RoutedTo(P(_), i) ==
    LET src == IF EnvText(i) # <<>> /\ P(EnvText(i)).ok THEN EnvText(i)
               ELSE FallbackOf(i)
    IN IF src # <<>> /\ P(src).ok
       THEN ~FailedAt(i) /\ fields[i] = SetInt(TypeOf(i).kind, P(src).n)
       ELSE FailedAt(i) /\ fields[i] = before[i]

\* The fields of signed-integer kind Load got to.
IntFields == {i \in EligibleFields : Reached(i) /\ TypeOf(i).kind \in IntKinds}

C12_Routing ==
    \A i \in IntFields :
        IF TypeOf(i).typ = "time.Duration" THEN RoutedTo(ParseDuration, i)
        ELSE RoutedTo(Atoi, i)

C12_DurationRouting ==
    returned =>
        /\ C12_Routing
        /\ \A i \in IntFields :
              (FallbackOf(i) = <<>> /\ EnvText(i) # <<>>) =>
                  IF TypeOf(i).typ = "time.Duration"
                  THEN Atoi(EnvText(i)).ok => FailedAt(i)
                  ELSE ParseDuration(EnvText(i)).ok => FailedAt(i)

(***************************************************************************)
(* C12 as amended: the same, except for the text "0" (with or without a    *)
(* sign): it is a plain integer without a unit and also a duration, so     *)
(* both a Duration field and an int64 field accept it.                     *)
(***************************************************************************)
C12_DurationRoutingButZero ==
    returned =>
        /\ C12_Routing
        /\ \A i \in IntFields :
              (/\ FallbackOf(i) = <<>>
               /\ EnvText(i) # <<>>
               /\ Unsigned(EnvText(i)) # TxtZero) =>
                  IF TypeOf(i).typ = "time.Duration"
                  THEN Atoi(EnvText(i)).ok => FailedAt(i)
                  ELSE ParseDuration(EnvText(i)).ok => FailedAt(i)

\* With the variable at 40000 an int field took 40000 and the Duration
\* field after it was rejected with InvalidFormat.
C12_Witness ==
    /\ returned
    /\ NumField = 2
    /\ IntFields = {1, 2}
    /\ EnvText(1) = TxtBig
    /\ TypeOf(1).typ = "int" /\ fields[1] = IntVal(40000)
    /\ TypeOf(2).typ = "time.Duration" /\ FallbackOf(2) = <<>>
    /\ FailedAt(2) /\ err.kind = "InvalidFormat"

(***************************************************************************)
(* C13: when the argument of Load is not a pointer (an untyped nil, a      *)
(* struct by value), is a nil pointer, or points to something that is not  *)
(* a struct (a string, a pointer to a struct), Load returns InvalidTarget;  *)
(* it returns normally, calls setField on nothing (so looks up no          *)
(* variable) and changes nothing.                                          *)
(***************************************************************************)
C13_InvalidTarget ==
    (returned /\ target.kind \in BadTargetKinds) =>
        /\ err.kind = "InvalidTarget"
        /\ err.field = 0
        /\ calls = <<>>
        /\ fields = before

\* Load was given a pointer to a pointer to a struct whose field's
\* variable is usable; the field still holds what the caller had put there.
C13_Witness ==
    /\ returned
    /\ target.kind = "ptrPtr"
    /\ err.kind = "InvalidTarget"
    /\ EnvText(1) = TxtOne
    /\ fields[1] = Preset(TypeOf(1))

(***************************************************************************)
(* Vocabulary of the properties of the accessors.  What is known of a      *)
(* call is forgotten when the environment changes, so the environment of   *)
(* a state that describes a call is the environment of that call.          *)
(***************************************************************************)
Did(op) == last.op = op

\* The text of the variable the call asked for ("" when it is not set).
CallText == Getenv(env, last.key)

\* The parser of each accessor type accepts the text.
AccParses(T, text) ==
    CASE T = "string" -> TRUE
      [] T = "int" -> Atoi(text).ok
      [] T = "float32" -> ParseFloat(text, 32).ok
      [] T = "float64" -> ParseFloat(text, 64).ok
      [] T = "bool" -> ParseBool(text).ok
      [] T = "time" -> ParseRFC3339(text).ok
      [] OTHER -> ParseDuration(text).ok

\* What TryGet of the call's type and key gives in the state's environment.
TryGetNow == TryGetAcc(last.ty, env, last.key)

(***************************************************************************)
(* C14: when the variable has no entry or its entry is the empty text,     *)
(* TryGet of every type fails with NotFound for the key (the same error    *)
(* in both cases, never InvalidFormat, never a value), Get returns its     *)
(* fallback argument and MustGet panics.                                   *)
(***************************************************************************)
C14_NotFoundWhenAbsent ==
    (last.op # "none" /\ CallText = <<>>) =>
        /\ Did("TryGet") => last.err = NotFound(last.key) /\ ~last.panicked
        /\ Did("Get") => last.v = last.fb /\ last.err = NoErr /\ ~last.panicked
        /\ Did("MustGet") => last.panicked /\ last.err = NotFound(last.key)

\* TryGetEnvBool answered NotFound for a variable that is set to "".
C14_Witness ==
    /\ Did("TryGet") /\ last.ty = "bool"
    /\ env[last.key] = Empty
    /\ last.err.kind = "NotFound"

(***************************************************************************)
(* C15: when the variable holds non-empty text that the parser of a        *)
(* non-text type rejects, TryGet of that type fails with InvalidFormat,    *)
(* Get returns its fallback argument and MustGet panics.  TryGet of the    *)
(* text type succeeds on every non-empty text.                             *)
(***************************************************************************)
C15_InvalidFormatWhenMalformed ==
    (last.op # "none" /\ CallText # <<>>) =>
        IF last.ty = "string"
        THEN Did("TryGet") => last.err = NoErr /\ last.v = StrVal(CallText)
        ELSE ~AccParses(last.ty, CallText) =>
                /\ Did("TryGet") =>
                      last.err.kind = "InvalidFormat" /\ ~last.panicked
                /\ Did("Get") => last.v = last.fb /\ last.err = NoErr
                /\ Did("MustGet") =>
                      last.panicked /\ last.err.kind = "InvalidFormat"

\* MustGetEnvDuration panicked with InvalidFormat on the text "1".
C15_Witness ==
    /\ Did("MustGet") /\ last.ty = "duration"
    /\ CallText = TxtOne
    /\ last.panicked /\ last.err.kind = "InvalidFormat"

(***************************************************************************)
(* C16: the InvalidFormat error of TryGet of every non-text type carries   *)
(* the key, the raw text of the variable and the parser's error, wrapped.  *)
(***************************************************************************)
C16_InvalidFormatCarries ==
    (Did("TryGet") /\ last.err.kind = "InvalidFormat") =>
        /\ last.err.key = last.key
        /\ last.err.raw = CallText
        /\ last.err.wrapped

(***************************************************************************)
(* C17: Get of every type returns the value TryGet returns when TryGet     *)
(* succeeds and its fallback argument when TryGet fails with either kind   *)
(* of error; it gives no error and does not panic.                         *)
(***************************************************************************)
C17_GetIsTryGetOrFallback ==
    Did("Get") =>
        /\ last.v = IF TryGetNow.err = NoErr THEN TryGetNow.v ELSE last.fb
        /\ last.err = NoErr
        /\ ~last.panicked

\* GetEnvBool returned the fallback true for a text that is not a bool.
C17_Witness ==
    /\ Did("Get") /\ last.ty = "bool"
    /\ CallText = TxtBad
    /\ TryGetNow.err.kind = "InvalidFormat"
    /\ last.fb = BoolVal(TRUE) /\ last.v = BoolVal(TRUE)

(***************************************************************************)
(* C18: MustGet of every type panics if and only if TryGet fails; the      *)
(* payload of the panic is the error TryGet returns, and without a panic   *)
(* MustGet returns the value TryGet returns.                               *)
(***************************************************************************)
C18_MustGetPanicsIffTryGetFails ==
    Did("MustGet") =>
        /\ last.panicked <=> TryGetNow.err # NoErr
        /\ last.panicked => last.err = TryGetNow.err
        /\ ~last.panicked => last.v = TryGetNow.v /\ last.err = NoErr

\* MustGetEnvTime panicked with NotFound for a variable that is not set.
C18_Witness ==
    /\ Did("MustGet") /\ last.ty = "time"
    /\ env[last.key] = Unset
    /\ last.panicked /\ last.err = NotFound(last.key)

Fresh ==
    CASE Did("TryGet") -> Outcome(FALSE, TryGetNow.err, TryGetNow.v)
      [] Did("Get") ->
            Outcome(FALSE, NoErr,
                    IF TryGetNow.err = NoErr THEN TryGetNow.v ELSE last.fb)
      [] OTHER ->
            IF TryGetNow.err = NoErr THEN Outcome(FALSE, NoErr, TryGetNow.v)
            ELSE Outcome(TRUE, TryGetNow.err, NoVal)

C20_NoCaching ==
    /\ last.op # "none" => Outcome(last.panicked, last.err, last.v) = Fresh
    /\ returned =>
          LoadRet(err, fields, calls) = LoadOf(env, target, before)

\* TryGetEnvInt gave the value of a variable for which the accessor call
\* before it had answered NotFound.
C20_Witness ==
    /\ Did("TryGet") /\ last.ty = "int"
    /\ seen = "NotFound"
    /\ last.err = NoErr /\ last.v = IntVal(40000)

(***************************************************************************)
(* C21: no call of the library changes the environment.  A step after      *)
(* which a call of TryGet, Get, MustGet or Load has just returned          *)
(* (with a value, an error or a panic) leaves every variable as it was.    *)
(***************************************************************************)
C21_EnvironmentNotMutated ==
    [][(last'.op # "none" \/ returned') => env' = env]_vars

\* Load failed with NotFound and the variable is still not set; or
\* MustGet panicked and the variable is still not set.
C21_Witness ==
    /\ env[KeyK] = Unset
    /\ \/ returned /\ err.kind = "NotFound"
       \/ Did("MustGet") /\ last.panicked

(***************************************************************************)
(* C22: the fallback literal is looked at only when the accessor call of   *)
(* the field has failed.  A field Load gets to whose accessor succeeds is  *)
(* assigned and Load does not fail at it, however malformed its fallback   *)
(* literal is; and when Load reports InvalidFallback for a field, the      *)
(* accessor of that field has failed.                                      *)
(***************************************************************************)
C22_LazyFallback ==
    returned =>
        \A i \in SupportedFields :
            /\ (Reached(i) /\ AccessorErr(i) = NoErr) => ~FailedAt(i)
            /\ (FailedAt(i) /\ err.kind = "InvalidFallback") =>
                  AccessorErr(i) # NoErr

\* A bool field whose variable is 1 and whose fallback literal is not a
\* bool was set to true.
C22_Witness ==
    /\ returned /\ err = NoErr
    /\ \E i \in SupportedFields :
          /\ TypeOf(i).typ = "bool"
          /\ EnvText(i) = TxtOne
          /\ FallbackOf(i) = TxtBad
          /\ Reached(i)
          /\ fields[i] = BoolVal(TRUE)

(***************************************************************************)
(* C23: after a Load that returns nil, an eligible field of type int8,     *)
(* int16 or int32 whose value comes from the integer text n (the           *)
(* variable's text if it is a base-10 integer, the fallback literal        *)
(* otherwise) equals n; a number outside the field's width is not wrapped. *)
(***************************************************************************)
\* The text the value of the integer field i comes from.
IntSource(i) ==
    IF EnvText(i) # <<>> /\ Atoi(EnvText(i)).ok THEN EnvText(i) ELSE FallbackOf(i)

C23_IntegerWidth ==
    (returned /\ err = NoErr) =>
        \A i \in EligibleFields :
            TypeOf(i).typ \in {"int8", "int16", "int32"} =>
                fields[i] = IntVal(Atoi(IntSource(i)).n)

(***************************************************************************)
(* C24: Load agrees with the accessors field by field.  For a field of a   *)
(* supported type that Load gets to: without a fallback tag, Load does     *)
(* not fail at the field exactly when TryGet of the field's type succeeds  *)
(* and the field then holds TryGet's value; with a fallback literal that   *)
(* parses to d, the field holds what Get with fallback d returns.          *)
(***************************************************************************)
C24_LoadAgreesWithAccessors ==
    returned =>
        \A i \in SupportedFields :
            Reached(i) =>
                LET r == TryGetOf(TypeOf(i), env, KeyOf(i))
                IN IF FallbackOf(i) = <<>>
                   THEN /\ ~FailedAt(i) <=> r.err = NoErr
                        /\ r.err = NoErr => fields[i] = r.v
                   ELSE ParsesAs(TypeOf(i), FallbackOf(i)) =>
                            fields[i] = IF r.err = NoErr THEN r.v
                                        ELSE Parsed(TypeOf(i), FallbackOf(i))

(***************************************************************************)
(* C25: Load never fails at an eligible string field that has a non-empty  *)
(* fallback tag: when the variable is absent or empty the field is         *)
(* assigned the fallback literal as it is written.                         *)
(***************************************************************************)
C25_StringFallbackNeverFails ==
    returned =>
        \A i \in EligibleFields :
            (TypeOf(i).kind = "String" /\ FallbackOf(i) # <<>>) =>
                /\ ~FailedAt(i)
                /\ (Reached(i) /\ EnvText(i) = <<>>) =>
                      fields[i] = StrVal(FallbackOf(i))

\* A string field whose variable is set to "" holds its fallback literal.
C25_Witness ==
    /\ returned
    /\ \E i \in EligibleFields :
          /\ TypeOf(i).kind = "String"
          /\ env[KeyOf(i)] = Empty
          /\ Reached(i)
          /\ fields[i] = StrVal(TxtBad)
          /\ fields[i] # before[i]

(***************************************************************************)
(* C26: when Load fails at a field, with NotFound, InvalidFormat,          *)
(* InvalidFallback or UnsupportedType, that field holds at the return      *)
(* the value it held at the call.                                          *)
(***************************************************************************)
C26_FailingFieldUntouched ==
    \A f \in 1..NumField :
        FailedAt(f) =>
            /\ err.kind \in {"NotFound", "InvalidFormat", "InvalidFallback",
                             "UnsupportedType"}
            /\ fields[f] = before[f]

\* Load failed with InvalidFallback at a float64 field that still holds
\* the value the caller had put there.
C26_Witness ==
    \E f \in 1..NumField :
        /\ FailedAt(f) /\ err.kind = "InvalidFallback"
        /\ TypeOf(f).typ = "float64"
        /\ fields[f] = Preset(TypeOf(f))
        /\ fields[f] # Zero(TypeOf(f))

(***************************************************************************)
(* C27: the ineligible fields have no influence on Load.  An untagged or   *)
(* unexported field is never the cause of a failure, whatever its type,    *)
(* and its fallback tag is never applied; the error Load returns, the      *)
(* fields it passes to setField and the final values of the eligible       *)
(* fields are those of Load on the struct without its ineligible fields.   *)
(***************************************************************************)
\* The eligible fields in declaration order.
EligibleSeq ==
    [j \in 1..Cardinality(EligibleFields) |->
        CHOOSE i \in EligibleFields :
            Cardinality({k \in EligibleFields : k < i}) = j - 1]

\* Load on the struct made of the eligible fields only, holding the values
\* they held at the call.
LoadWithoutIneligible ==
    LoadLoop(env,
             [j \in 1..Len(EligibleSeq) |-> target.decls[EligibleSeq[j]]],
             [j \in 1..Len(EligibleSeq) |-> before[EligibleSeq[j]]],
             1, <<>>)

C27_IneligibleNoInfluence ==
    (returned /\ target.kind = "ptrStruct") =>
        /\ \A i \in (1..NumField) \ EligibleFields :
              ~FailedAt(i) /\ ~Reached(i) /\ fields[i] = before[i]
        /\ IF LoadWithoutIneligible.err = NoErr THEN err = NoErr
           ELSE err = [LoadWithoutIneligible.err EXCEPT
                          !.field = EligibleSeq[LoadWithoutIneligible.err.field]]
        /\ calls = [j \in 1..Len(LoadWithoutIneligible.calls) |->
                        EligibleSeq[LoadWithoutIneligible.calls[j]]]
        /\ \A j \in 1..Len(EligibleSeq) :
              fields[EligibleSeq[j]] = LoadWithoutIneligible.fields[j]

\* Load succeeded on a struct whose first field is an untagged uint and
\* whose second field was assigned.
C27_Witness ==
    /\ returned /\ err = NoErr
    /\ NumField = 2
    /\ TypeOf(1).typ = "uint" /\ KeyOf(1) = <<>>
    /\ EligibleSeq = <<2>>
    /\ fields[2] # before[2]

(***************************************************************************)
(* C28: Load's result does not depend on what the target held and Load is  *)
(* idempotent.  With the same environment, the error and the final value   *)
(* of every eligible field Load processed are those of Load on the         *)
(* zero-valued struct, and a second Load returns the same result and       *)
(* leaves the struct as it is.                                             *)
(***************************************************************************)
\* Load on the same struct type, holding zero values.
LoadFromZero ==
    LoadOf(env, target, [i \in 1..NumField |-> Zero(TypeOf(i))])

\* A second Load on the struct as the first one left it.
LoadAgain == LoadOf(env, target, fields)

\* As stated: for every eligible field Load got to, the failing one included.
C28_IndependentOfPriorContents ==
    returned =>
        /\ err = LoadFromZero.err
        /\ \A i \in EligibleFields :
              Reached(i) => fields[i] = LoadFromZero.fields[i]
        /\ LoadAgain = LoadRet(err, fields, calls)

\* C28, amended: for every eligible field Load assigned.
C28_AssignedIndependentOfPriorContents ==
    returned =>
        /\ err = LoadFromZero.err
        /\ calls = LoadFromZero.calls
        /\ \A i \in EligibleFields :
              (Reached(i) /\ ~FailedAt(i)) => fields[i] = LoadFromZero.fields[i]
        /\ LoadAgain = LoadRet(err, fields, calls)

\* Load on a pre-populated struct assigned the first field and failed at
\* the second, which holds what it held.
C28_Witness ==
    /\ returned
    /\ NumField = 2
    /\ before[1] = Preset(TypeOf(1)) /\ fields[1] # before[1]
    /\ Reached(1) /\ FailedAt(2)
    /\ fields[2] = Preset(TypeOf(2))

(***************************************************************************)
(* C29: Load looks a variable up at most once for each eligible field, in  *)
(* declaration order, and not at all for an ineligible field, a field of   *)
(* an unsupported type or a field after the first failure.  When the       *)
(* environment changes between two rounds, each assigned field holds what  *)
(* setField makes of the text its own lookup gave.                         *)
(***************************************************************************)
\* The lookups made for field i.
LookupsFor(i) == {j \in 1..Len(lookups) : lookups[j].field = i}

\* The text the lookup for field i gave.
TextFor(i) == lookups[CHOOSE j \in LookupsFor(i) : TRUE].text

C29_OneLookupPerField ==
    /\ \A j \in 1..Len(lookups) : lookups[j].field \in SupportedFields
    /\ \A j \in 1..(Len(lookups) - 1) : lookups[j].field < lookups[j + 1].field
    /\ \A j \in 1..Len(lookups) :
          /\ pc > 0 => lookups[j].field < pc
          /\ (returned /\ err # NoErr) => lookups[j].field <= err.field
    /\ \A i \in SupportedFields :
          Reached(i) =>
             /\ Cardinality(LookupsFor(i)) = 1
             /\ ~FailedAt(i) =>
                   setField([k \in Keys |-> TextFor(i)], TypeOf(i), before[i],
                            KeyOf(i), FallbackOf(i))
                      = Ret(NoErr, fields[i])

\* Load succeeded on two int fields bound to the same variable and gave
\* them different values: the variable changed between the two rounds.
C29_Witness ==
    /\ returned /\ err = NoErr /\ pc = 0
    /\ NumField = 2
    /\ KeyOf(1) = KeyOf(2) /\ TypeOf(1) = TypeOf(2)
    /\ Len(lookups) = 2
    /\ lookups[1].text # lookups[2].text
    /\ fields[1] # fields[2]

(***************************************************************************)
(* C30: every call of Load terminates.  On a struct of N fields the loop   *)
(* takes each field at most once, in at most N rounds, and then Load       *)
(* returns, whatever the environment and the tags are.                     *)
(***************************************************************************)
C30_LoadTerminates ==
    /\ [](pc \in 0..(NumField + 1) /\ Len(calls) <= NumField)
    /\ [][pc' = pc \/ pc' = pc + 1 \/ (pc' = 0 /\ returned')]_vars
    /\ (pc > 0) ~> (pc = 0 /\ returned)

\* Load returned nil after a round on each of two fields.
C30_Witness ==
    /\ returned /\ err = NoErr /\ pc = 0
    /\ NumField = 2
    /\ calls = <<1, 2>>

====
